---- MODULE Spec2Model ----
(***************************************************************************)
(* A model of src/cli/tester-cli.ts, the command-line driver of the        *)
(* URScript test runner: argument handling, the two file reads, JSON       *)
(* parsing, the lodash merge of the user configuration onto defaultConfig, *)
(* the derivation of the bundler configuration, the concatenating merge of *)
(* the global source sets, the assembly of the collaborators and the       *)
(* single awaited call of execute.                                         *)
(*                                                                         *)
(* JavaScript objects and arrays live in a heap, because the driver's      *)
(* behaviour depends on which objects are shared: { ...defaultConfig } is  *)
(* a shallow copy, and the synthesized bundler configuration points at     *)
(* config.sources.                                                         *)
(***************************************************************************)
EXTENDS Integers, Sequences, FiniteSets, TLC

VARIABLES
  argv,              \* minimist's result: config, bundle, _ (path)
  fs,                \* the two files the command line may name
  pc,                \* position in main
  heap,              \* JavaScript objects and arrays, by address
  contents,          \* text of the --config file
  bundleContents,    \* text of the --bundle file, or undefined
  userConfig,        \* JSON.parse(contents)
  config,            \* { ...defaultConfig }, then merged
  bundlerConfig,     \* parsed or synthesized bundler configuration
  globalSources,     \* the fresh object of line 124
  scriptRunnerConfig,
  testRunnerConfig,
  executionConfig,
  constructed,       \* collaborators constructed so far, in order
  executeCalls,      \* how many times executor.execute() was called
  outcome,           \* "none", "resolved" or "rejected"
  err,               \* the error thrown, "none" when there is none
  caught,            \* the catch block of lines 180-183 ran
  stdout,            \* what console.log printed
  stderr,            \* what the runtime printed for an unhandled rejection
  exitCode,          \* the process's exit code, -1 while it runs
  reads,             \* the files readFileSync was called on
  parses,            \* how many times JSON.parse was called
  synthesized        \* the default bundler configuration was built

vars == <<argv, fs, pc, heap, contents, bundleContents, userConfig, config,
          bundlerConfig, globalSources, scriptRunnerConfig, testRunnerConfig,
          executionConfig, constructed, executeCalls, outcome, err, caught,
          stdout, stderr, exitCode, reads, parses, synthesized>>

(***************************************************************************)
(* Bounds of the model.                                                    *)
(***************************************************************************)
MaxLen == 2        \* longest include/exclude array in a configuration file
MaxPathLen == 4    \* longest positional path argument

(***************************************************************************)
(* JavaScript values.  Every value is a record of one shape; numbers are   *)
(* kept as numerals.  An object or array is a reference into the heap.     *)
(***************************************************************************)
Undefined == [t |-> "undefined", v |-> "", a |-> 0]
Null == [t |-> "null", v |-> "", a |-> 0]
Str(s) == [t |-> "string", v |-> s, a |-> 0]
Num(s) == [t |-> "number", v |-> s, a |-> 0]
Bool(b) == [t |-> "boolean", v |-> IF b THEN "true" ELSE "false", a |-> 0]
Ref(a) == [t |-> "ref", v |-> "", a |-> a]

isObject(val) == val.t = "ref"

\* JavaScript truthiness of a value
Truthy(val) ==
  CASE val.t = "undefined" -> FALSE
    [] val.t = "null" -> FALSE
    [] val.t = "boolean" -> val.v = "true"
    [] val.t = "number" -> val.v # "0"
    [] val.t = "string" -> val.v # ""
    [] OTHER -> TRUE

NewObject == [kind |-> "object", f |-> <<>>, e |-> <<>>]
NewArray == [kind |-> "array", f |-> <<>>, e |-> <<>>]

isArray(h, val) == isObject(val) /\ h[val.a].kind = "array"

\* The order in which the own keys of an object are visited.
KeyOrder ==
  <<"controller", "host", "ports", "primary", "autoLaunch", "disabled",
    "version", "stop", "testServer", "port", "defaultExecutionTimeout",
    "restartThreshold", "mocks", "include", "exclude", "sources", "global",
    "scripts", "options", "bundleKey", "bundleOutputFile", "outputDir",
    "scriptSuffix", "writeToDisk">>

KeysOfFn(f) == SelectSeq(KeyOrder, LAMBDA k : k \in DOMAIN f)

\* own enumerable keys of the object at address a: indices for an array
Keys(h, a) ==
  IF h[a].kind = "array" THEN [i \in 1..Len(h[a].e) |-> i]
  ELSE KeysOfFn(h[a].f)

Has(h, a, k) ==
  IF h[a].kind = "array" THEN k <= Len(h[a].e) ELSE k \in DOMAIN h[a].f

\* object[key]
Get(h, a, k) ==
  IF Has(h, a, k)
  THEN (IF h[a].kind = "array" THEN h[a].e[k] ELSE h[a].f[k])
  ELSE Undefined

\* object[key] = val
Put(h, a, k, val) ==
  IF h[a].kind = "array"
  THEN [h EXCEPT ![a].e = IF k <= Len(@) THEN [@ EXCEPT ![k] = val]
                          ELSE Append(@, val)]
  ELSE [h EXCEPT ![a].f = [x \in DOMAIN @ \cup {k} |->
                             IF x = k THEN val ELSE @[x]]]

\* value.prop, where reading a property of undefined or null is a TypeError
\* (reported by the caller) and of any other primitive gives undefined
Prop(h, val, k) == IF isObject(val) THEN Get(h, val.a, k) ELSE Undefined

(***************************************************************************)
(* JSON documents, as trees, and their allocation by JSON.parse.           *)
(***************************************************************************)
TObj(f) == [t |-> "object", f |-> f]
TArr(e) == [t |-> "array", e |-> e]

RECURSIVE Alloc(_, _)
RECURSIVE AllocKeys(_, _, _, _)
\* the heap and the value after building the tree as fresh objects
Alloc(h, tree) ==
  CASE tree.t = "object" ->
         LET a == Len(h) + 1
         IN [h |-> AllocKeys(Append(h, NewObject), a, tree.f, KeysOfFn(tree.f)),
             val |-> Ref(a)]
    [] tree.t = "array" ->
         LET a == Len(h) + 1
         IN [h |-> AllocKeys(Append(h, NewArray), a, tree.e,
                             [i \in 1..Len(tree.e) |-> i]),
             val |-> Ref(a)]
    [] OTHER -> [h |-> h, val |-> tree]

\* the keys ks in order: those before the last, then the last (the test on
\* h0 has the evaluator finish the earlier keys before it starts the last)
AllocKeys(h, a, f, ks) ==
  IF ks = <<>> THEN h
  ELSE LET k == ks[Len(ks)]
           h0 == AllocKeys(h, a, f, SubSeq(ks, 1, Len(ks) - 1))
           r == Alloc(h0, f[k])
       IN IF Len(h0) > 0 THEN Put(r.h, a, k, r.val) ELSE h0

RECURSIVE Reify(_, _)
\* the tree a value stands for, following references
Reify(h, val) ==
  IF ~isObject(val) THEN val
  ELSE IF h[val.a].kind = "array"
       THEN TArr([i \in 1..Len(h[val.a].e) |-> Reify(h, h[val.a].e[i])])
       ELSE TObj([k \in DOMAIN h[val.a].f |-> Reify(h, h[val.a].f[k])])

(***************************************************************************)
(* lodash merge and mergeWith (imported on line 4), as far as plain        *)
(* objects, arrays and primitives go.  Every source merged here is a tree  *)
(* (parsed JSON or the configuration built from it), so lodash's stack of  *)
(* sources already being merged, which only guards against cycles, never   *)
(* finds an entry and is left out.                                         *)
(***************************************************************************)

\* assignMergeValue: object[key] = value, unless value is undefined and the
\* key exists
assignMergeValue(h, obj, key, value) ==
  IF value = Undefined /\ Has(h, obj, key) THEN h ELSE Put(h, obj, key, value)

\* objValue.concat(srcValue): a new array; an array argument is spread
concat(h, objValue, srcValue) ==
  LET tail == IF isArray(h, srcValue) THEN h[srcValue.a].e ELSE <<srcValue>>
      arr == [NewArray EXCEPT !.e = h[objValue.a].e \o tail]
  IN [h |-> Append(h, arr), val |-> Ref(Len(h) + 1)]

\* a slip the bundle-then-cli order would expose: srcValue.concat(objValue)
customizerSwapped(h, objValue, srcValue) ==
  IF isArray(h, objValue) /\ isArray(h, srcValue)
  THEN concat(h, srcValue, objValue)
  ELSE [h |-> h, val |-> Undefined]

\* a slip that loses elements: no customizer result, so lodash's own merge of
\* arrays, index by index, applies
customizerAbsent(h, objValue, srcValue) == [h |-> h, val |-> Undefined]

\* the customizer of lines 131-135
customizer(h, objValue, srcValue) ==
  IF isArray(h, objValue)
  THEN concat(h, objValue, srcValue)
  ELSE [h |-> h, val |-> Undefined]

RECURSIVE baseMerge(_, _, _, _, _)
RECURSIVE baseMergeDeep(_, _, _, _, _)

\* one key of baseMerge's loop over the source's keys
mergeKey(h, obj, src, key, cust) ==
  LET srcValue == Get(h, src, key)
  IN IF isObject(srcValue) THEN baseMergeDeep(h, obj, src, key, cust)
     ELSE LET c == IF cust THEN customizer(h, Get(h, obj, key), srcValue)
                   ELSE [h |-> h, val |-> Undefined]
              newValue == IF c.val = Undefined THEN srcValue ELSE c.val
          IN assignMergeValue(c.h, obj, key, newValue)

\* baseMerge over the keys ks of the source still to visit
\* (the keys in order: those before the last, then the last)
baseMerge(h, obj, src, ks, cust) ==
  IF ks = <<>> THEN h
  ELSE LET h0 == baseMerge(h, obj, src, SubSeq(ks, 1, Len(ks) - 1), cust)
       IN IF Len(h0) > 0 THEN mergeKey(h0, obj, src, ks[Len(ks)], cust) ELSE h0

\* baseMergeDeep: the source's value is an object or an array.  The
\* destination's own value is merged into in place when it is an array (for
\* an array) or any object (for a plain object); otherwise a fresh one is made.
baseMergeDeep(h, obj, src, key, cust) ==
  LET objValue == Get(h, obj, key)
      srcValue == Get(h, src, key)
      c == IF cust THEN customizer(h, objValue, srcValue)
           ELSE [h |-> h, val |-> Undefined]
  IN IF c.val # Undefined THEN assignMergeValue(c.h, obj, key, c.val)
     ELSE LET isArr == isArray(h, srcValue)
              reuse == IF isArr THEN isArray(h, objValue) ELSE isObject(objValue)
              h1 == IF reuse THEN h
                    ELSE Append(h, IF isArr THEN NewArray ELSE NewObject)
              newValue == IF reuse THEN objValue ELSE Ref(Len(h1))
              h2 == baseMerge(h1, newValue.a, srcValue.a, Keys(h1, srcValue.a), cust)
          IN assignMergeValue(h2, obj, key, newValue)

RECURSIVE mergeSources(_, _, _, _)
\* createAssigner: each source in turn, null and undefined sources skipped
mergeSources(h, obj, sources, cust) ==
  IF sources = <<>> THEN h
  ELSE LET s == Head(sources)
           h1 == IF isObject(s) THEN baseMerge(h, obj.a, s.a, Keys(h, s.a), cust)
                 ELSE h
       IN IF Len(h1) > 0 THEN mergeSources(h1, obj, Tail(sources), cust) ELSE h1

\* merge(object, source)
merge(h, object, source) == mergeSources(h, object, <<source>>, FALSE)

\* mergeWith(object, source1, source2, customizer)
mergeWith(h, object, source1, source2) ==
  mergeSources(h, object, <<source1, source2>>, TRUE)

(***************************************************************************)
(* Strings that the driver takes apart are sequences of characters.        *)
(***************************************************************************)
suffixPattern ==
  <<"*", "*", "/", "*", ".", "t", "e", "s", "t", ".", "s", "c", "r", "i", "p", "t">>

SetMax(S) == CHOOSE x \in S : \A y \in S : y <= x

\* path.extname (posix): the text from the last "." of the last path
\* component, trailing separators ignored, to that component's end; empty
\* when there is no ".", when the "." opens the component, or for ".."
extname(path) ==
  LET nonSlash == {i \in 1..Len(path) : path[i] # "/"}
      end == IF nonSlash = {} THEN 0 ELSE SetMax(nonSlash)
      slashes == {i \in 1..end : path[i] = "/"}
      startPart == IF slashes = {} THEN 1 ELSE SetMax(slashes) + 1
      dots == {i \in startPart..end : path[i] = "."}
      startDot == IF dots = {} THEN 0 ELSE SetMax(dots)
      preDotState == IF startDot = startPart THEN 0
                     ELSE IF path[startPart] = "." THEN 1 ELSE -1
  IN IF end = 0 \/ startDot = 0 THEN <<>>
     ELSE IF preDotState = 0
             \/ (preDotState = 1 /\ startDot = end /\ startDot = startPart + 1)
          THEN <<>>
          ELSE SubSeq(path, startDot, end)

\* String.prototype.lastIndexOf, 0-based, -1 when absent
lastIndexOf(str, ch) ==
  LET at == {i \in 1..Len(str) : str[i] = ch}
  IN IF at = {} THEN -1 ELSE SetMax(at) - 1

\* a slip: the separator is inserted whether or not the argument ends in one
getTestPatternAlwaysSlash(pattern) ==
  IF pattern.given /\ pattern.s # <<>>
  THEN (IF extname(pattern.s) # <<>> THEN pattern.s \o <<"*">>
        ELSE pattern.s \o <<"/">> \o suffixPattern)
  ELSE suffixPattern

\* getTestPattern, lines 60-76; pattern is path[0], which may be absent
getTestPattern(pattern) ==
  IF pattern.given /\ pattern.s # <<>>
  THEN LET ext == extname(pattern.s)
       IN IF ext # <<>> THEN pattern.s \o <<"*">>
          ELSE IF lastIndexOf(pattern.s, "/") = Len(pattern.s) - 1
               THEN pattern.s \o suffixPattern
               ELSE pattern.s \o <<"/">> \o suffixPattern
  ELSE suffixPattern

(***************************************************************************)
(* The built-in configuration, lines 29-58.                                *)
(***************************************************************************)
defaultConfigLiteral ==
  TObj([controller |->
          TObj([host |-> Str("localhost"),
                ports |-> TObj([primary |-> Num("30001")]),
                autoLaunch |-> TObj([disabled |-> Bool(FALSE),
                                     version |-> Str("5.3.1"),
                                     stop |-> Bool(FALSE)])]),
        testServer |->
          TObj([host |-> Str("autodiscover"),
                port |-> Num("24493"),
                defaultExecutionTimeout |-> Num("10000")]),
        mocks |->
          TObj([include |-> TArr(<<Str("__mocks__/**/*.mock.script")>>),
                exclude |-> TArr(<<>>)]),
        sources |->
          TObj([global |->
                  TObj([scripts |-> TObj([include |-> TArr(<<>>),
                                          exclude |-> TArr(<<>>)])])])])

\* the module-level constant: the first object the program creates
defaultConfig == Ref(1)

\* the options of the synthesized bundler configuration, lines 105-111
defaultBundlerOptions ==
  TObj([bundleKey |-> Str("test-harness"),
        bundleOutputFile |-> Str("default"),
        outputDir |-> Str(".urscript-test"),
        scriptSuffix |-> Str("script"),
        writeToDisk |-> Bool(TRUE)])

(***************************************************************************)
(* Inputs: the command line and the two files.  A file's text is a length, *)
(* whether it is JSON, and the document it then denotes.                   *)
(***************************************************************************)
Seqs(S, n) == UNION {[1..k -> S] : k \in 0..n}

Pick(f, K) == [k \in (DOMAIN f) \cap K |-> f[k]]

NoText == [defined |-> FALSE, len |-> 0, json |-> FALSE, doc |-> Null]
EmptyText == [defined |-> TRUE, len |-> 0, json |-> FALSE, doc |-> Null]
GarbageText == [defined |-> TRUE, len |-> 1, json |-> FALSE, doc |-> Null]
JsonText(doc) == [defined |-> TRUE, len |-> 2, json |-> TRUE, doc |-> doc]

NoFile == [exists |-> FALSE, text |-> NoText]
File(text) == [exists |-> TRUE, text |-> text]

NoPath == [given |-> FALSE, s |-> <<>>]
PathArg(str) == [given |-> TRUE, s |-> str]

Globs == {Str("a.script"), Str("b.script")}

\* the include/exclude fields of a glob set, each present or not
GlobSets(Inc, Exc) ==
  {Pick([include |-> TArr(i), exclude |-> TArr(e)], K) :
     i \in Inc, e \in Exc, K \in SUBSET {"include", "exclude"}}

EmptyDoc == TObj(<<>>)

\* user configurations that set some scalar leaves of controller, testServer
ControllerLeaves == {"host", "primary", "disabled", "version", "stop"}
TestServerLeaves == {"host", "port", "defaultExecutionTimeout", "restartThreshold"}

ScalarDoc(S, T) ==
  LET al == Pick([disabled |-> Bool(TRUE), version |-> Str("3.14.3"),
                  stop |-> Bool(TRUE)], S)
      ctl == Pick([host |-> Str("10.0.0.2"),
                   ports |-> TObj([primary |-> Num("40001")]),
                   autoLaunch |-> TObj(al)],
                  (S \cap {"host"})
                    \cup (IF "primary" \in S THEN {"ports"} ELSE {})
                    \cup (IF DOMAIN al # {} THEN {"autoLaunch"} ELSE {}))
      ts == Pick([host |-> Str("127.0.0.1"), port |-> Num("25000"),
                  defaultExecutionTimeout |-> Num("500"),
                  restartThreshold |-> Num("3")], T)
  IN TObj(Pick([controller |-> TObj(ctl), testServer |-> TObj(ts)],
               (IF DOMAIN ctl # {} THEN {"controller"} ELSE {})
                 \cup (IF DOMAIN ts # {} THEN {"testServer"} ELSE {})))

ScalarDocs == {ScalarDoc(S, T) : S \in SUBSET ControllerLeaves,
                                 T \in SUBSET TestServerLeaves}

MockDocs ==
  {TObj([mocks |-> TObj(m)]) :
     m \in GlobSets(Seqs(Globs, MaxLen), Seqs(Globs, MaxLen))}

SourcesDoc(m) == [sources |-> TObj([global |-> TObj([scripts |-> TObj(m)])])]

SourceDocs ==
  {TObj(SourcesDoc(m)) :
     m \in GlobSets(Seqs(Globs, MaxLen), Seqs({Str("c.script")}, MaxLen))}

\* bundle files whose global scripts have both arrays
BundleSourceDocs ==
  {TObj(SourcesDoc([include |-> TArr(B), exclude |-> TArr(D)])
          @@ [options |-> defaultBundlerOptions]) :
     B \in Seqs(Globs, MaxLen), D \in Seqs({Str("d.script")}, MaxLen)}

\* bundle files without sources, without a global group, and the JSON null
BundleOtherDocs ==
  {EmptyDoc, Null, TObj([sources |-> EmptyDoc]),
   TObj([options |-> defaultBundlerOptions])}

Chars == {"a", ".", "/"}
PathArgs == {NoPath} \cup {PathArg(str) : str \in Seqs(Chars, MaxPathLen)}

Files(Docs) == {NoFile, File(EmptyText), File(GarbageText)}
                 \cup {File(JsonText(d)) : d \in Docs}

Scenario(c, b, path, cf, bf) ==
  [argv |-> [config |-> c, bundle |-> b, path |-> path],
   fs |-> [config |-> cf, bundle |-> bf]]

\* the control flow: every kind of file behind --config and --bundle
DriverScenarios ==
  {Scenario(c, b, NoPath, cf, IF b THEN bf ELSE NoFile) :
     c \in BOOLEAN, b \in BOOLEAN,
     cf \in Files({EmptyDoc, Null}),
     bf \in Files(BundleOtherDocs)}

\* the merge of the user configuration onto the defaults
MergeScenarios ==
  {Scenario(TRUE, FALSE, NoPath, File(JsonText(d)), NoFile) :
     d \in ScalarDocs \cup MockDocs}

\* the merge of the global source sets, with and without a bundle file
SourceScenarios ==
  {Scenario(TRUE, bf.exists, NoPath, File(JsonText(d)), bf) :
     d \in SourceDocs,
     bf \in {NoFile} \cup {File(JsonText(bd)) : bd \in BundleSourceDocs}}

\* the positional argument
PatternScenarios ==
  {Scenario(TRUE, FALSE, path, File(JsonText(EmptyDoc)), NoFile) :
     path \in PathArgs}

Scenarios ==
  DriverScenarios \cup MergeScenarios \cup SourceScenarios \cup PatternScenarios

(***************************************************************************)
(* The state as the process starts: defaultConfig has been built, main has *)
(* not run.                                                                *)
(***************************************************************************)
Init ==
  /\ \E sc \in Scenarios : argv = sc.argv /\ fs = sc.fs
  /\ pc = "start"
  /\ heap = Alloc(<<>>, defaultConfigLiteral).h
  /\ contents = NoText
  /\ bundleContents = NoText
  /\ userConfig = Undefined
  /\ config = Undefined
  /\ bundlerConfig = Undefined
  /\ globalSources = Undefined
  /\ scriptRunnerConfig = Undefined
  /\ testRunnerConfig = Undefined
  /\ executionConfig = Undefined
  /\ constructed = <<>>
  /\ executeCalls = 0
  /\ outcome = "none"
  /\ err = "none"
  /\ caught = FALSE
  /\ stdout = <<>>
  /\ stderr = <<>>
  /\ exitCode = -1
  /\ reads = <<>>
  /\ parses = 0
  /\ synthesized = FALSE

(***************************************************************************)
(* main, lines 78-184, one action per step.                                *)
(***************************************************************************)
inputs == <<argv, fs>>
locals == <<contents, bundleContents, userConfig, config, bundlerConfig,
            globalSources>>
assembled == <<scriptRunnerConfig, testRunnerConfig, executionConfig,
               constructed>>
execution == <<executeCalls, outcome>>
output == <<stdout, stderr, exitCode, caught>>
history == <<reads, parses, synthesized>>

Nullish(val) == val.t \in {"undefined", "null"}

\* a string as an if-condition or the test of ?: (lines 93 and 101)
TruthyText(text) == text.defined /\ text.len > 0

\* a slip: printHelp without process.exit, so main goes on to read files
StartWithoutExit ==
  /\ pc = "start"
  /\ stdout' = IF argv.config THEN stdout ELSE Append(stdout, "usage")
  /\ pc' = "readConfig"
  /\ UNCHANGED <<inputs, heap, locals, assembled, execution, err, stderr,
                 exitCode, caught, history>>

\* lines 79-87: no --config prints the usage and exits 0
Start ==
  /\ pc = "start"
  /\ IF argv.config
     THEN pc' = "readConfig" /\ UNCHANGED <<stdout, exitCode>>
     ELSE /\ stdout' = Append(stdout, "usage")
          /\ exitCode' = 0
          /\ pc' = "exited"
  /\ UNCHANGED <<inputs, heap, locals, assembled, execution, err, stderr,
                 caught, history>>

\* line 89, outside the try block: a failed read rejects main's promise
ReadConfig ==
  /\ pc = "readConfig"
  /\ reads' = Append(reads, "config")
  /\ IF argv.config /\ fs.config.exists
     THEN contents' = fs.config.text /\ pc' = "readBundle" /\ err' = err
     ELSE /\ contents' = contents
          /\ pc' = "rejected"
          /\ err' = IF argv.config THEN "ENOENT" ELSE "TypeError"
  /\ UNCHANGED <<inputs, heap, bundleContents, userConfig, config,
                 bundlerConfig, globalSources, assembled, execution, output,
                 parses, synthesized>>

\* lines 91-95, outside the try block
ReadBundle ==
  /\ pc = "readBundle"
  /\ IF argv.bundle
     THEN /\ reads' = Append(reads, "bundle")
          /\ IF fs.bundle.exists
             THEN /\ bundleContents' = fs.bundle.text
                  /\ pc' = "parse"
                  /\ err' = err
             ELSE /\ bundleContents' = bundleContents
                  /\ pc' = "rejected"
                  /\ err' = "ENOENT"
     ELSE pc' = "parse" /\ UNCHANGED <<reads, bundleContents, err>>
  /\ UNCHANGED <<inputs, heap, contents, userConfig, config, bundlerConfig,
                 globalSources, assembled, execution, output, parses,
                 synthesized>>

\* { ...defaultConfig }: a new object with defaultConfig's own properties
spread(h, val) ==
  [h |-> Append(h, [NewObject EXCEPT !.f = h[val.a].f]), val |-> Ref(Len(h) + 1)]

\* lines 98-99
ParseUserConfig ==
  /\ pc = "parse"
  /\ parses' = parses + 1
  /\ IF contents.json
     THEN LET u == Alloc(heap, contents.doc)
              c == spread(u.h, defaultConfig)
          IN /\ userConfig' = u.val
             /\ config' = c.val
             /\ heap' = c.h
             /\ pc' = "derive"
             /\ err' = err
     ELSE /\ pc' = "catch"
          /\ err' = "SyntaxError"
          /\ UNCHANGED <<userConfig, config, heap>>
  /\ UNCHANGED <<inputs, contents, bundleContents, bundlerConfig,
                 globalSources, assembled, execution, output, reads,
                 synthesized>>

\* the object literal of lines 103-112
synthesize(h, cfg) ==
  LET o == Alloc(h, defaultBundlerOptions)
      a == Len(o.h) + 1
      h1 == Put(Put(Append(o.h, NewObject), a, "sources", Get(o.h, cfg.a, "sources")),
                a, "options", o.val)
  IN [h |-> h1, val |-> Ref(a)]

\* lines 114-116 on an object: a falsy sources becomes {}
ensureSources(h, bc) ==
  IF Truthy(Get(h, bc.a, "sources")) THEN h
  ELSE Put(Append(h, NewObject), bc.a, "sources", Ref(Len(h) + 1))

\* a slip that would not share config.sources: the synthesized configuration
\* gets a copy of the sources
deriveBundlerConfigCopying(h, text, cfg) ==
  IF TruthyText(text) /\ text.json
  THEN LET r == Alloc(h, text.doc)
       IN [h |-> IF isObject(r.val) THEN ensureSources(r.h, r.val) ELSE r.h,
           val |-> r.val, parsed |-> TRUE, synth |-> FALSE,
           err |-> IF Nullish(r.val) THEN "TypeError" ELSE "none"]
  ELSE IF TruthyText(text)
  THEN [h |-> h, val |-> Undefined, parsed |-> TRUE, synth |-> FALSE,
        err |-> "SyntaxError"]
  ELSE LET c == Alloc(h, Reify(h, Get(h, cfg.a, "sources")))
           o == Alloc(c.h, defaultBundlerOptions)
           a == Len(o.h) + 1
       IN [h |-> Put(Put(Append(o.h, NewObject), a, "sources", c.val),
                     a, "options", o.val),
           val |-> Ref(a), parsed |-> FALSE, synth |-> TRUE, err |-> "none"]

\* lines 101-116: the bundle file's JSON when its text is truthy, else the
\* synthesized configuration; err is what the step throws
deriveBundlerConfig(h, text, cfg) ==
  IF TruthyText(text)
  THEN IF text.json
       THEN LET r == Alloc(h, text.doc)
            IN [h |-> IF isObject(r.val) THEN ensureSources(r.h, r.val) ELSE r.h,
                val |-> r.val, parsed |-> TRUE, synth |-> FALSE,
                err |-> IF Nullish(r.val) THEN "TypeError" ELSE "none"]
       ELSE [h |-> h, val |-> Undefined, parsed |-> TRUE, synth |-> FALSE,
             err |-> "SyntaxError"]
  ELSE LET r == synthesize(h, cfg)
       IN [h |-> ensureSources(r.h, r.val), val |-> r.val, parsed |-> FALSE,
           synth |-> TRUE, err |-> "none"]

DeriveBundlerConfig ==
  /\ pc = "derive"
  /\ LET d == deriveBundlerConfig(heap, bundleContents, config)
     IN /\ parses' = IF d.parsed THEN parses + 1 ELSE parses
        /\ synthesized' = d.synth
        /\ heap' = d.h
        /\ bundlerConfig' = d.val
        /\ err' = d.err
        /\ pc' = IF d.err = "none" THEN "merge" ELSE "catch"
  /\ UNCHANGED <<inputs, contents, bundleContents, userConfig, config,
                 globalSources, assembled, execution, output, reads>>

\* line 118
MergeUserConfig ==
  /\ pc = "merge"
  /\ heap' = merge(heap, config, userConfig)
  /\ pc' = "mergeSources"
  /\ UNCHANGED <<inputs, locals, assembled, execution, err, output, history>>

\* lines 124-138
MergeGlobalSources ==
  /\ pc = "mergeSources"
  /\ LET g == Alloc(heap, TObj(<<>>))
         bsources == Prop(g.h, bundlerConfig, "sources")
         csources == Prop(g.h, config, "sources")
     IN IF Nullish(csources) \/ ~isObject(bsources)
        THEN /\ pc' = "catch"
             /\ err' = "TypeError"
             /\ heap' = g.h
             /\ globalSources' = g.val
        ELSE LET h1 == mergeWith(g.h, g.val, Prop(g.h, bsources, "global"),
                                 Prop(g.h, csources, "global"))
             IN /\ heap' = Put(h1, bsources.a, "global", g.val)
                /\ globalSources' = g.val
                /\ pc' = "assemble"
                /\ err' = err
  /\ UNCHANGED <<inputs, contents, bundleContents, userConfig, config,
                 bundlerConfig, assembled, execution, output, history>>

\* lines 140-177: the three configurations and the four collaborators
Assemble ==
  /\ pc = "assemble"
  /\ LET controller == Prop(heap, config, "controller")
         ports == Prop(heap, controller, "ports")
         autoLaunch == Prop(heap, controller, "autoLaunch")
         testServer == Prop(heap, config, "testServer")
     IN IF Nullish(controller) \/ Nullish(ports) \/ Nullish(autoLaunch)
        THEN pc' = "catch" /\ err' = "TypeError" /\ UNCHANGED assembled
        ELSE IF Nullish(testServer)
        THEN /\ pc' = "catch"
             /\ err' = "TypeError"
             /\ scriptRunnerConfig' =
                  [host |-> Prop(heap, controller, "host"),
                   port |-> Prop(heap, ports, "primary"),
                   controller |->
                     [autoLaunch |-> Bool(~Truthy(Prop(heap, autoLaunch, "disabled"))),
                      controllerVersion |-> Prop(heap, autoLaunch, "version"),
                      autoStop |-> Prop(heap, autoLaunch, "stop")]]
             /\ constructed' = Append(constructed, "URScriptRunner")
             /\ UNCHANGED <<testRunnerConfig, executionConfig>>
        ELSE /\ scriptRunnerConfig' =
                  [host |-> Prop(heap, controller, "host"),
                   port |-> Prop(heap, ports, "primary"),
                   controller |->
                     [autoLaunch |-> Bool(~Truthy(Prop(heap, autoLaunch, "disabled"))),
                      controllerVersion |-> Prop(heap, autoLaunch, "version"),
                      autoStop |-> Prop(heap, autoLaunch, "stop")]]
             /\ testRunnerConfig' =
                  [runner |-> "URScriptRunner",
                   port |-> Prop(heap, testServer, "port"),
                   executionTimeout |-> Prop(heap, testServer, "defaultExecutionTimeout"),
                   restartThreshold |-> Prop(heap, testServer, "restartThreshold")]
             /\ executionConfig' =
                  [runner |-> "TestRunner",
                   environment |->
                     [server |-> [host |-> Prop(heap, testServer, "host"),
                                  port |-> Prop(heap, testServer, "port")]],
                   test |-> [pattern |-> getTestPattern(argv.path)],
                   mocks |-> Prop(heap, config, "mocks"),
                   bundlerConfig |-> bundlerConfig,
                   results |-> [writer |-> "TestResultWriter"]]
             /\ constructed' = constructed \o <<"URScriptRunner", "TestRunner",
                                                "TestResultWriter",
                                                "TestExecutionService">>
             /\ pc' = "execute"
             /\ err' = err
  /\ UNCHANGED <<inputs, heap, locals, execution, output, history>>

\* line 179: the call of executor.execute()
Execute ==
  /\ pc = "execute"
  /\ executeCalls' = executeCalls + 1
  /\ pc' = "awaiting"
  /\ UNCHANGED <<inputs, heap, locals, assembled, outcome, err, output, history>>

\* the awaited promise resolves: main returns and the process ends with 0
ExecuteResolves ==
  /\ pc = "awaiting"
  /\ outcome' = "resolved"
  /\ exitCode' = 0
  /\ pc' = "exited"
  /\ UNCHANGED <<inputs, heap, locals, assembled, executeCalls, err, stdout,
                 stderr, caught, history>>

\* the awaited promise rejects: the await throws inside the try block
ExecuteRejects ==
  /\ pc = "awaiting"
  /\ outcome' = "rejected"
  /\ err' = "ExecutionError"
  /\ pc' = "catch"
  /\ UNCHANGED <<inputs, heap, locals, assembled, executeCalls, output, history>>

\* a slip: the error is printed but the process is left to end by itself
CatchWithoutExit ==
  /\ pc = "catch"
  /\ caught' = TRUE
  /\ stdout' = Append(stdout, err)
  /\ exitCode' = 0
  /\ pc' = "exited"
  /\ UNCHANGED <<inputs, heap, locals, assembled, execution, err, stderr, history>>

\* lines 180-183
Catch ==
  /\ pc = "catch"
  /\ caught' = TRUE
  /\ stdout' = Append(stdout, err)
  /\ exitCode' = 1
  /\ pc' = "exited"
  /\ UNCHANGED <<inputs, heap, locals, assembled, execution, err, stderr, history>>

\* line 186: main() is called with no rejection handler.  What the runtime
\* does with the unhandled rejection is its own policy: it reports it, then
\* either lets the process end normally (code 0) or ends it with code 1.
UnhandledRejection ==
  /\ pc = "rejected"
  /\ stderr' = Append(stderr, err)
  /\ \E code \in {0, 1} : exitCode' = code
  /\ pc' = "exited"
  /\ UNCHANGED <<inputs, heap, locals, assembled, execution, err, stdout,
                 caught, history>>

Next ==
  \/ Start
  \/ ReadConfig
  \/ ReadBundle
  \/ ParseUserConfig
  \/ DeriveBundlerConfig
  \/ MergeUserConfig
  \/ MergeGlobalSources
  \/ Assemble
  \/ Execute
  \/ ExecuteResolves
  \/ ExecuteRejects
  \/ Catch
  \/ UnhandledRejection

Spec == Init /\ [][Next]_vars

(***************************************************************************)
(* What the properties below speak about.                                  *)
(***************************************************************************)
RECURSIVE TreePath(_, _)
\* the part of a document at a path of keys, undefined when absent
TreePath(tree, path) ==
  IF path = <<>> THEN tree
  ELSE IF tree.t = "object" /\ Head(path) \in DOMAIN tree.f
       THEN TreePath(tree.f[Head(path)], Tail(path))
       ELSE Undefined

RECURSIVE Overlay(_, _)
\* the defaults with every field the user document has replaced by the
\* user's value, objects field by field
Overlay(d, u) ==
  IF d.t = "object" /\ u.t = "object"
  THEN TObj([k \in DOMAIN d.f \cup DOMAIN u.f |->
               IF k \in DOMAIN u.f
               THEN (IF k \in DOMAIN d.f THEN Overlay(d.f[k], u.f[k]) ELSE u.f[k])
               ELSE d.f[k]])
  ELSE u

UserDoc == fs.config.text.doc
BundleDoc == fs.bundle.text.doc
ScriptsPath == <<"sources", "global", "scripts">>

\* the elements of an array-valued part of a document, none when absent
Elements(tree) == IF tree.t = "array" THEN tree.e ELSE <<>>
HasArrays(doc) ==
  /\ TreePath(doc, ScriptsPath \o <<"include">>).t = "array"
  /\ TreePath(doc, ScriptsPath \o <<"exclude">>).t = "array"

UserGlobs(field) == Elements(TreePath(UserDoc, ScriptsPath \o <<field>>))
BundleGlobs(field) == Elements(TreePath(BundleDoc, ScriptsPath \o <<field>>))

\* bundlerConfig.sources.global.scripts.<field>, as handed on
DerivedGlobs(field) ==
  Elements(TreePath(Reify(heap, bundlerConfig), ScriptsPath \o <<field>>))

\* lines 124-138 have run without throwing
SourcesMerged == pc \in {"assemble", "execute", "awaiting"} \/ executeCalls > 0
\* lines 140-177 have run without throwing
Assembled == pc \in {"execute", "awaiting"} \/ executeCalls > 0
\* an explicit bundle file was read and parsed
ExplicitBundle == argv.bundle /\ TruthyText(bundleContents) /\ bundleContents.json

A1 == <<Str("a.script")>>
B1 == <<Str("b.script")>>

\* C1 (as stated): with the test configuration's include ["a.script"] and
\* the bundle configuration's include ["b.script"], the bundlerConfig handed
\* on has include ["a.script","b.script"].
C1_AsStated ==
  (SourcesMerged /\ ExplicitBundle /\ HasArrays(BundleDoc)
     /\ UserGlobs("include") = A1 /\ BundleGlobs("include") = B1)
    => DerivedGlobs("include") = A1 \o B1

\* C1 (amended): in that scenario the include handed on is
\* ["b.script","a.script"], the bundle's element first, none dropped.
C1_BundleThenCli ==
  (SourcesMerged /\ ExplicitBundle /\ HasArrays(BundleDoc)
     /\ UserGlobs("include") = A1 /\ BundleGlobs("include") = B1)
    => DerivedGlobs("include") = B1 \o A1

C1_Witness ==
  /\ Assembled /\ ExplicitBundle
  /\ UserGlobs("include") = A1 /\ BundleGlobs("include") = B1
  /\ Len(DerivedGlobs("include")) = 2

\* C2: with an explicit bundle file whose global scripts have arrays B
\* (include) and D (exclude), and a CLI configuration with A and C, the
\* include handed on is B followed by A and the exclude is D followed by C.
C2_ConcatBundleThenCli ==
  (SourcesMerged /\ ExplicitBundle /\ HasArrays(BundleDoc))
    => /\ DerivedGlobs("include") = BundleGlobs("include") \o UserGlobs("include")
       /\ DerivedGlobs("exclude") = BundleGlobs("exclude") \o UserGlobs("exclude")
       /\ Len(DerivedGlobs("include"))
            = Len(BundleGlobs("include")) + Len(UserGlobs("include"))

C2_Witness ==
  /\ SourcesMerged /\ ExplicitBundle /\ HasArrays(BundleDoc)
  /\ Len(BundleGlobs("include")) = MaxLen /\ Len(UserGlobs("include")) = MaxLen
  /\ BundleGlobs("exclude") # <<>> /\ UserGlobs("exclude") # <<>>
  /\ BundleGlobs("include") # UserGlobs("include")

\* C3: a missing --config or --bundle file ends in the catch block, which
\* prints the error and exits 1; nothing is constructed or executed.
C3_LoadErrorCaught ==
  (pc = "exited" /\ err = "ENOENT")
    => /\ caught /\ exitCode = 1 /\ stdout = <<"ENOENT">>
       /\ constructed = <<>> /\ executeCalls = 0

\* C4: text read from the --config file or from a specified --bundle file
\* that is not JSON (the empty text included) ends in Failure: the parse
\* error is printed, the exit code is 1, no default bundler configuration
\* is synthesized, nothing is constructed and execute is not invoked.
C4_NotJsonFails ==
  (pc = "exited" /\ contents.defined /\ (argv.bundle => bundleContents.defined)
     /\ (~contents.json \/ (argv.bundle /\ ~bundleContents.json)))
    => /\ caught /\ exitCode = 1 /\ stdout = <<"SyntaxError">>
       /\ ~synthesized /\ constructed = <<>> /\ executeCalls = 0

\* C5: after the merge of line 118 every field the user configuration has
\* holds the user's value and every other field its default.
C5_UserValuesWin ==
  (pc = "mergeSources" /\ UserDoc.t = "object")
    => Reify(heap, config) = Overlay(defaultConfigLiteral, UserDoc)

\* C6: getTestPattern gives the default pattern for an absent argument and,
\* for a non-empty one, exactly one of: p* when p has an extension, p
\* followed by the default pattern when p ends with "/", p, "/" and the
\* default pattern otherwise; the result has no "//" that p did not have.
C6_TestPattern ==
  Assembled =>
    LET p == argv.path
        r == executionConfig.test.pattern
        hasExt == extname(p.s) # <<>>
        endsSlash == p.s[Len(p.s)] = "/"
    IN /\ ~p.given => r = suffixPattern
       /\ (p.given /\ p.s # <<>>) =>
            /\ hasExt => r = p.s \o <<"*">>
            /\ (~hasExt /\ endsSlash) => r = p.s \o suffixPattern
            /\ (~hasExt /\ ~endsSlash) => r = p.s \o <<"/">> \o suffixPattern
            /\ \A i \in 1..(Len(r) - 1) :
                 (r[i] = "/" /\ r[i + 1] = "/") => i + 1 <= Len(p.s)

C6_Witness ==
  /\ Assembled /\ argv.path.given /\ Len(argv.path.s) = MaxPathLen
  /\ extname(argv.path.s) = <<>>
  /\ argv.path.s[MaxPathLen] = "/"
  /\ \E i \in 1..MaxPathLen : argv.path.s[i] = "."

\* C7: execute is invoked once and never again; a run whose execute
\* rejected prints the error and exits 1, a run whose execute resolved
\* exits 0.
C7_ExecuteOnce ==
  /\ executeCalls <= 1
  /\ outcome # "none" => executeCalls = 1
  /\ (pc = "exited" /\ outcome = "rejected")
       => exitCode = 1 /\ caught /\ stdout = <<"ExecutionError">>
  /\ (pc = "exited" /\ outcome = "resolved")
       => exitCode = 0 /\ ~caught /\ stdout = <<>>

C7_Witness == pc = "exited" /\ outcome = "rejected" /\ exitCode = 1

\* C8: without --config the driver prints the usage and exits 0 with no
\* file read, no JSON parsed, nothing constructed and execute not invoked.
C8_HelpAndExit ==
  ~argv.config =>
    /\ pc \in {"start", "exited"}
    /\ reads = <<>> /\ parses = 0 /\ constructed = <<>> /\ executeCalls = 0
    /\ pc = "exited" => (exitCode = 0 /\ stdout = <<"usage">>)

C8_Witness == ~argv.config /\ argv.bundle /\ pc = "exited" /\ exitCode = 0

\* C9: defaultConfig, with its nested objects and arrays, keeps its
\* initial values throughout the run.
C9_DefaultsUntouched == Reify(heap, defaultConfig) = defaultConfigLiteral

\* C10: without a bundle file the synthesized configuration's sources is
\* the CLI configuration's sources object, and the include and exclude
\* handed on are the user's lists followed by themselves.
C10_SelfConcat ==
  (SourcesMerged /\ ~argv.bundle)
    => /\ Prop(heap, bundlerConfig, "sources") = Prop(heap, config, "sources")
       /\ DerivedGlobs("include") = UserGlobs("include") \o UserGlobs("include")
       /\ DerivedGlobs("exclude") = UserGlobs("exclude") \o UserGlobs("exclude")

C10_Witness ==
  /\ SourcesMerged /\ ~argv.bundle /\ synthesized
  /\ Len(UserGlobs("include")) = MaxLen
  /\ Len(DerivedGlobs("include")) = 2 * MaxLen
  /\ UserGlobs("exclude") # <<>>

====
